---- MODULE Spec2Model ----
\* A model of the two components of the repository:
\*   ActionRegressor (src/PyPi/approximators/action_regressor.py): one
\*     regression model per discrete action, fit/predict routed by the action
\*     columns of each row;
\*   Tiles (src/mushroom/features/tiles/tiles.py): rectangular tiling of a
\*     continuous space, with the generate factory of offset tilings.
\* Numbers of the tile coder are exact rationals <<numerator, denominator>>.
EXTENDS Integers, Sequences, FiniteSets, TLC

VARIABLES
    \* ---- ActionRegressor ----
    status,            \* "none" | "ok" | "error": outcome of __init__
    initArgs,          \* the arguments (model, discrete_actions) of __init__
    nOps,              \* number of fit / predict calls made so far
    discrete_actions,  \* self._discrete_actions: [shape, rows]
    action_dim,        \* self._action_dim
    models,            \* self.models: sequence of sub-models
    lastOp,            \* the last operation run: "none" | "init" | "fit" | "predict" | ...
    lastX,             \* the x argument of the last fit / predict
    lastY,             \* the y argument of the last fit
    calls,             \* the sub-model fit calls made by the last fit, in order
    predictions,       \* the value returned by the last predict
    sources,           \* per row, the index of the sub-model whose predict wrote
                       \* the entry of predictions (0: the np.zeros default)
    \* ---- Tiles ----
    tilings,           \* the Tiles objects built by the last constructor / generate
    genArgs,           \* the arguments of the generate call that built them
    self,              \* index in tilings of the object last called
    point,             \* the x argument of the last __call__
    result             \* the value returned by the last __call__

vars == <<status, initArgs, nOps, discrete_actions, action_dim, models, lastOp, lastX, lastY,
          calls, predictions, sources, tilings, genArgs, self, point, result>>

tileVars == <<tilings, genArgs, self, point, result>>

regVars == <<status, initArgs, nOps, discrete_actions, action_dim, models,
             lastX, lastY, calls, predictions, sources>>

\* ------------------------------------------------------------------
\* Bounds of the model
\* ------------------------------------------------------------------
MaxRows == 2        \* rows of a batch x
MaxActions == 2     \* rows of discrete_actions
MaxOps == 2         \* fit / predict calls on one regressor
MaxShape == 2       \* extent of an axis of an array that is not 2-D
MaxTiles == 2       \* tiles per dimension
MaxTilings == 2     \* n_tilings of generate

ActionDims == {1, 2}          \* columns of a 2-D discrete_actions
ActionVals == {0, 1}          \* values of an action component
FeatureRows == {<<0>>, <<1>>} \* leading (feature) columns of a row of x
Targets == {1, 2}             \* values of y, and of a sub-model's predictions
Dims == {1, 2}                \* number of dimensions of a tiling
Coords == {0, 1, 2}           \* bounds of the ranges of a tiling

\* ------------------------------------------------------------------
\* Sequences
\* ------------------------------------------------------------------
SeqsUpTo(S, n) == UNION {[1..k -> S] : k \in 0..n}

IsInjective(s) == \A i, j \in 1..Len(s) : s[i] = s[j] => i = j

\* x[idxs] : the rows of x at the positions idxs, in the order of idxs
Take(x, idxs) == [k \in 1..Len(idxs) |-> x[idxs[k]]]

\* ------------------------------------------------------------------
\* The regression model handed to ActionRegressor (an external collaborator
\* with fit and predict): here a table from feature row to target, which
\* fit overwrites row by row and predict reads.
\* ------------------------------------------------------------------
Tables == [FeatureRows -> Targets]

\* the model passed to __init__: not fitted yet, it predicts 1 everywhere
Templates == {[f \in FeatureRows |-> 1]}

RECURSIVE ModelFit(_, _, _)
ModelFit(m, xs, ys) ==
    IF xs = << >> THEN m
    ELSE ModelFit([m EXCEPT ![Head(xs)] = Head(ys)], Tail(xs), Tail(ys))

ModelPredict(m, xs) == [r \in 1..Len(xs) |-> m[xs[r]]]

\* ------------------------------------------------------------------
\* ActionRegressor
\* ------------------------------------------------------------------
\* x[r, -action_dim:] and x[r, :-action_dim]
Trailing(row, ad) == SubSeq(row, Len(row) - ad + 1, Len(row))
Leading(row, ad) == SubSeq(row, 1, Len(row) - ad)

\* np.argwhere(mask).ravel(): the positions where mask holds, ascending
RECURSIVE ArgWhereFrom(_, _)
ArgWhereFrom(mask, r) ==
    IF r > Len(mask) THEN << >>
    ELSE (IF mask[r] THEN <<r>> ELSE << >>) \o ArgWhereFrom(mask, r + 1)

ArgWhere(mask) == ArgWhereFrom(mask, 1)

\* (x[:, -action_dim:] == action)[:, 0]: the element-wise comparison, of
\* which column 0 is kept.
MatchMask(x, ad, action) ==
    [r \in 1..Len(x) |-> [c \in 1..ad |-> Trailing(x[r], ad)[c] = action[c]][1]]

Idxs(x, ad, action) == ArgWhere(MatchMask(x, ad, action))

StripRows(x, ad, idxs) == [k \in 1..Len(idxs) |-> Leading(x[idxs[k]], ad)]

\* the arrays accepted as discrete_actions: any shape; the rows are kept
\* for the 2-D ones
Arrays2D ==
    {[shape |-> <<Len(rows), ad>>, rows |-> rows] :
        <<ad, rows>> \in
            {p \in ActionDims \X SeqsUpTo(SeqsUpTo(ActionVals, 2), MaxActions) :
                /\ \A i \in 1..Len(p[2]) : Len(p[2][i]) = p[1]
                /\ IsInjective(p[2])}}

ArraysOther ==
    {[shape |-> s, rows |-> << >>] :
        s \in {t \in SeqsUpTo(0..MaxShape, 4) : Len(t) # 2}}

Arrays == Arrays2D \cup ArraysOther

Batches(ad) ==
    SeqsUpTo({f \o a : <<f, a>> \in FeatureRows \X [1..ad -> ActionVals]}, MaxRows)

\* __init__(model, discrete_actions): shape[1] of an array of fewer than
\* two dimensions raises (IndexError), and no object is built; otherwise one
\* deepcopy of model is appended per index of range(shape[0]).
\* the validation the constructor does not do: reject every array that is
\* not 2-D or has no row
InitFailsValidated(da) == Len(da.shape) # 2 \/ da.shape[1] = 0

InitFails(da) == Len(da.shape) < 2

InitActionDim(da) == da.shape[2]

InitModels(model, da) == [i \in 1..da.shape[1] |-> model]

Construct(model, da) ==
    /\ status = "none"
    /\ lastOp' = "init"
    /\ initArgs' = <<model, da>>
    /\ IF InitFails(da)
       THEN /\ status' = "error"
            /\ UNCHANGED <<discrete_actions, action_dim, models>>
       ELSE /\ status' = "ok"
            /\ discrete_actions' = da
            /\ action_dim' = InitActionDim(da)
            /\ models' = InitModels(model, da)
    /\ UNCHANGED <<nOps, lastX, lastY, calls, predictions, sources>>
    /\ UNCHANGED tileVars

\* fit(x, y): for i in range(len(self.models)), the rows selected for action
\* i and, when there are any, the call self.models[i].fit(x[idxs, :-ad], y[idxs]).
FitIdxs(i, x) == Idxs(x, action_dim, discrete_actions.rows[i])

FitModels(ms, x, y) ==
    [i \in 1..Len(ms) |->
        IF FitIdxs(i, x) # << >>
        THEN ModelFit(ms[i], StripRows(x, action_dim, FitIdxs(i, x)),
                      Take(y, FitIdxs(i, x)))
        ELSE ms[i]]

RECURSIVE FitCalls(_, _, _)
FitCalls(i, x, y) ==
    IF i > Len(models) THEN << >>
    ELSE (IF FitIdxs(i, x) # << >>
          THEN <<[model |-> i, idxs |-> FitIdxs(i, x),
                  x |-> StripRows(x, action_dim, FitIdxs(i, x)),
                  y |-> Take(y, FitIdxs(i, x))]>>
          ELSE << >>) \o FitCalls(i + 1, x, y)

Fit(x, y) ==
    /\ status = "ok"
    /\ Len(discrete_actions.shape) = 2
    /\ nOps < MaxOps
    /\ nOps' = nOps + 1
    /\ lastOp' = "fit"
    /\ lastX' = x
    /\ lastY' = y
    /\ models' = FitModels(models, x, y)
    /\ calls' = FitCalls(1, x, y)
    /\ predictions' = << >>
    /\ sources' = << >>
    /\ UNCHANGED <<status, initArgs, discrete_actions, action_dim>>
    /\ UNCHANGED tileVars

\* predict(x): predictions = np.zeros(x.shape[0]); for each i in order,
\* predictions[idxs] = self.models[i].predict(x[idxs, :-ad]) when idxs is
\* not empty (a later i overwrites an earlier one).
Assign(p, idxs, vals) ==
    [r \in 1..Len(p) |->
        IF \E k \in 1..Len(idxs) : idxs[k] = r
        THEN vals[CHOOSE k \in 1..Len(idxs) : idxs[k] = r]
        ELSE p[r]]

RECURSIVE PredictLoop(_, _, _)
PredictLoop(i, p, x) ==
    IF i > Len(models) THEN p
    ELSE PredictLoop(i + 1,
            IF FitIdxs(i, x) # << >>
            THEN Assign(p, FitIdxs(i, x),
                        ModelPredict(models[i],
                                     StripRows(x, action_dim, FitIdxs(i, x))))
            ELSE p,
            x)

Zeros(n) == [r \in 1..n |-> 0]

PredictValue(x) == PredictLoop(1, Zeros(Len(x)), x)

\* which iteration i of the loop wrote each entry last
RECURSIVE SourceLoop(_, _, _)
SourceLoop(i, src, x) ==
    IF i > Len(models) THEN src
    ELSE SourceLoop(i + 1,
            IF FitIdxs(i, x) # << >>
            THEN Assign(src, FitIdxs(i, x), [k \in 1..Len(FitIdxs(i, x)) |-> i])
            ELSE src,
            x)

Predict(x) ==
    /\ status = "ok"
    /\ Len(discrete_actions.shape) = 2
    /\ nOps < MaxOps
    /\ nOps' = nOps + 1
    /\ lastOp' = "predict"
    /\ lastX' = x
    /\ predictions' = PredictValue(x)
    /\ sources' = SourceLoop(1, Zeros(Len(x)), x)
    /\ lastY' = << >>
    /\ calls' = << >>
    /\ UNCHANGED <<status, initArgs, discrete_actions, action_dim, models>>
    /\ UNCHANGED tileVars

NoArray == [shape |-> << >>, rows |-> << >>]

InitReg ==
    /\ status = "none"
    /\ initArgs = << >>
    /\ nOps = 0
    /\ discrete_actions = NoArray
    /\ action_dim = 0
    /\ models = << >>
    /\ lastOp = "none"
    /\ lastX = << >>
    /\ lastY = << >>
    /\ calls = << >>
    /\ predictions = << >>
    /\ sources = << >>

InitTiles ==
    /\ tilings = << >>
    /\ genArgs = << >>
    /\ self = 0
    /\ point = << >>
    /\ result = << >>

Init == InitReg /\ InitTiles

NextReg ==
    \/ \E model \in Templates, da \in Arrays : Construct(model, da)
    \/ /\ status = "ok"
       /\ \E x \in Batches(action_dim) :
             \E y \in [1..Len(x) -> Targets] : Fit(x, y)
    \/ /\ status = "ok"
       /\ \E x \in Batches(action_dim) : Predict(x)

SpecReg == Init /\ [][NextReg]_vars

NextInit == \E model \in Templates, da \in Arrays : Construct(model, da)

SpecInit == Init /\ [][NextInit]_vars

\* ------------------------------------------------------------------
\* Exact rational numbers <<n, d>>, d > 0, in lowest terms
\* ------------------------------------------------------------------
Abs(n) == IF n < 0 THEN -n ELSE n

RECURSIVE GCD(_, _)
GCD(a, b) == IF b = 0 THEN a ELSE GCD(b, a % b)

RNorm(n, d) ==
    LET g == GCD(Abs(n), Abs(d))
        sg == IF d < 0 THEN -1 ELSE 1
    IN  <<(sg * n) \div g, (sg * d) \div g>>

R(i) == <<i, 1>>
RAdd(a, b) == RNorm(a[1] * b[2] + b[1] * a[2], a[2] * b[2])
RSub(a, b) == RNorm(a[1] * b[2] - b[1] * a[2], a[2] * b[2])
RScale(k, a) == RNorm(k * a[1], a[2])
RDiv(a, b) == RNorm(a[1] * b[2], a[2] * b[1])
RLe(a, b) == a[1] * b[2] <= b[1] * a[2]
RLt(a, b) == a[1] * b[2] < b[1] * a[2]
RFloor(a) == a[1] \div a[2]

\* ------------------------------------------------------------------
\* Tiles
\* ------------------------------------------------------------------
\* Python's None, and an int result n, as sequences of length 0 and 1
None == << >>
Some(n) == <<n>>

\* the coordinates of the points evaluated: -1/2, 0, 1/2, ..., 5/2
PointCoords == {RNorm(n, 2) : n \in -1..5}
Points == [1..2 -> PointCoords]

Intervals == {<<R(p[1]), R(p[2])>> : p \in {q \in Coords \X Coords : q[1] < q[2]}}

\* the arguments of __init__: x_range a list of [lo, hi] lists or one flat
\* [lo, hi]; n_tiles a list or one number; state_components None or a list.
\* A flat x_range [lo, hi] and a number n_tiles are held in v[1].
XRanges ==
    {[nested |-> FALSE, v |-> <<r>>] : r \in Intervals}
    \cup {[nested |-> TRUE, v |-> rs] : rs \in UNION {[1..d -> Intervals] : d \in Dims}}

NTiles ==
    {[list |-> FALSE, v |-> <<n>>] : n \in 0..MaxTiles}
    \cup {[list |-> TRUE, v |-> ns] : ns \in UNION {[1..d -> 0..MaxTiles] : d \in Dims}}

StateComponents == {None, <<1>>, <<2>>, <<1, 2>>, <<2, 1>>}

\* lines 24-27
InitRange(x_range) == IF x_range.nested THEN x_range.v ELSE <<x_range.v[1]>>

\* lines 29-34
InitNTiles(n_tiles, range) ==
    IF n_tiles.list THEN n_tiles.v ELSE [d \in 1..Len(range) |-> n_tiles.v[1]]

\* the two assert statements of __init__
InitAsserts(x_range, n_tiles, state_components) ==
    /\ n_tiles.list => Len(n_tiles.v) = Len(InitRange(x_range))
    /\ state_components # None => Len(state_components) = Len(InitRange(x_range))

\* lines 41-44
RECURSIVE SizeLoop(_, _, _)
SizeLoop(ns, d, size) ==
    IF d > Len(ns) THEN size ELSE SizeLoop(ns, d + 1, size * ns[d])

TilesInit(x_range, n_tiles, state_components) ==
    [range |-> InitRange(x_range),
     n_tiles |-> InitNTiles(n_tiles, InitRange(x_range)),
     state_components |-> state_components,
     size |-> SizeLoop(InitNTiles(n_tiles, InitRange(x_range)), 1, 1)]

\* __call__(x)
Considered(t, x) ==
    IF t.state_components # None
    THEN [d \in 1..Len(t.state_components) |-> x[t.state_components[d]]]
    ELSE x

\* a range closed at both ends
InRangeClosed(r, v) == RLe(r[1], v) /\ RLe(v, r[2])

InRange(r, v) == RLe(r[1], v) /\ RLt(v, r[2])

ComponentIndex(r, N, v) ==
    RFloor(RDiv(RScale(N, RSub(v, r[1])), RSub(r[2], r[1])))

\* the component index added without its multiplier
NextTileIndexUnweighted(tile_index, component_index, multiplier) ==
    tile_index + component_index

NextTileIndex(tile_index, component_index, multiplier) ==
    tile_index + component_index * multiplier

\* a multiplier that is never updated
NextMultiplierStuck(multiplier, N) == multiplier

NextMultiplier(multiplier, N) == multiplier * N

RECURSIVE CallLoop(_, _, _, _, _)
CallLoop(t, x, i, multiplier, tile_index) ==
    IF i > Len(t.range) THEN Some(tile_index)
    ELSE IF InRange(t.range[i], x[i])
         THEN CallLoop(t, x, i + 1,
                       NextMultiplier(multiplier, t.n_tiles[i]),
                       NextTileIndex(tile_index,
                                     ComponentIndex(t.range[i], t.n_tiles[i], x[i]),
                                     multiplier))
         ELSE None

TileIndex(t, x) == CallLoop(t, Considered(t, x), 1, 1, 0)

\* generate(n_tilings, n_tiles, low, high)
Offset(n_tilings, n_tiles, low, high) ==
    [d \in 1..Len(low) |->
        RDiv(RSub(high[d], low[d]), R(n_tiles[d] * n_tilings - n_tilings + 1))]

\* the same lower bound for every tiling
XMinUnshifted(i, n_tilings, low, offset) ==
    [d \in 1..Len(low) |-> RSub(low[d], RScale(n_tilings - 1, offset[d]))]

XMin(i, n_tilings, low, offset) ==
    [d \in 1..Len(low) |-> RSub(low[d], RScale(n_tilings - 1 - i, offset[d]))]

\* the upper bound shifted down instead of up
XMaxShiftedDown(i, high, offset) ==
    [d \in 1..Len(high) |-> RSub(high[d], RScale(i, offset[d]))]

XMax(i, high, offset) ==
    [d \in 1..Len(high) |-> RAdd(high[d], RScale(i, offset[d]))]

\* tilings[i + 1] is the tiling built by iteration i of range(n_tilings)
GenerateTilings(n_tilings, n_tiles, low, high) ==
    [k \in 1..n_tilings |->
        TilesInit(
            [nested |-> TRUE,
             v |-> [d \in 1..Len(low) |->
                     <<XMin(k - 1, n_tilings, low,
                            Offset(n_tilings, n_tiles, low, high))[d],
                       XMax(k - 1, high,
                            Offset(n_tilings, n_tiles, low, high))[d]>>]],
            [list |-> TRUE, v |-> n_tiles],
            None)]

New(x_range, n_tiles, state_components) ==
    /\ lastOp = "none"
    /\ IF InitAsserts(x_range, n_tiles, state_components)
       THEN /\ lastOp' = "new"
            /\ tilings' = <<TilesInit(x_range, n_tiles, state_components)>>
       ELSE /\ lastOp' = "new_error"
            /\ tilings' = << >>
    /\ UNCHANGED <<genArgs, self, point, result>>
    /\ UNCHANGED regVars

Generate(n_tilings, n_tiles, low, high) ==
    /\ lastOp = "none"
    /\ IF Len(n_tiles) = Len(low) /\ Len(low) = Len(high)
       THEN /\ lastOp' = "generate"
            /\ tilings' = GenerateTilings(n_tilings, n_tiles, low, high)
       ELSE /\ lastOp' = "generate_error"
            /\ tilings' = << >>
    /\ genArgs' = [n_tilings |-> n_tilings, n_tiles |-> n_tiles,
                   low |-> low, high |-> high]
    /\ UNCHANGED <<self, point, result>>
    /\ UNCHANGED regVars

\* one evaluation of one of the objects built: a Tiles object is never
\* modified, so a later evaluation sees the same object
Call(s, x) ==
    /\ lastOp \in {"new", "generate"}
    /\ s \in 1..Len(tilings)
    /\ tilings[s].state_components # None =>
          \A d \in 1..Len(tilings[s].state_components) :
              tilings[s].state_components[d] <= Len(x)
    /\ lastOp' = "call"
    /\ self' = s
    /\ point' = x
    /\ result' = TileIndex(tilings[s], x)
    /\ UNCHANGED <<tilings, genArgs>>
    /\ UNCHANGED regVars

CoordLists == UNION {[1..d -> {R(c) : c \in Coords}] : d \in Dims}
TileLists == UNION {[1..d -> 1..MaxTiles] : d \in Dims}

\* the boxes passed to generate: low[d] <= high[d] in every dimension
Boxes ==
    {b \in CoordLists \X CoordLists :
        Len(b[1]) = Len(b[2]) => \A d \in 1..Len(b[1]) : RLe(b[1][d], b[2][d])}

NextTiles ==
    \/ /\ lastOp = "none"
       /\ \E x_range \in XRanges, n_tiles \in NTiles, sc \in StateComponents :
             New(x_range, n_tiles, sc)
    \/ /\ lastOp = "none"
       /\ \E n_tilings \in 1..MaxTilings, n_tiles \in TileLists, b \in Boxes :
             Generate(n_tilings, n_tiles, b[1], b[2])
    \/ \E s \in 1..Len(tilings), x \in Points : Call(s, x)

SpecTiles == Init /\ [][NextTiles]_vars

\* ------------------------------------------------------------------
\* Claims about ActionRegressor
\* ------------------------------------------------------------------
\* the rows of x whose trailing action_dim columns equal action in every
\* component
ExactIdxs(x, action) ==
    ArgWhere([r \in 1..Len(x) |-> Trailing(x[r], action_dim) = action])

ActionOf(i) == discrete_actions.rows[i]

Unrecognized(row) ==
    \A i \in 1..Len(models) : Trailing(row, action_dim) # ActionOf(i)

\* C1: fit calls sub-model i's fit exactly when some row of x carries action
\* i in every component, and then once, with exactly those rows (action
\* columns stripped, input order kept) and their y entries; a row that
\* carries no configured action is passed to no sub-model.
C1_FitRoutesByWholeAction ==
    lastOp = "fit" =>
        /\ \A i \in 1..Len(models) :
              /\ (ExactIdxs(lastX, ActionOf(i)) # << >>)
                    <=> (\E c \in 1..Len(calls) : calls[c].model = i)
              /\ \A c, e \in 1..Len(calls) :
                    calls[c].model = i /\ calls[e].model = i => c = e
              /\ \A c \in 1..Len(calls) :
                    calls[c].model = i =>
                        /\ calls[c].x = StripRows(lastX, action_dim,
                                                  ExactIdxs(lastX, ActionOf(i)))
                        /\ calls[c].y = Take(lastY, ExactIdxs(lastX, ActionOf(i)))
        /\ \A r \in 1..Len(lastX) :
              Unrecognized(lastX[r]) =>
                  \A c \in 1..Len(calls) :
                      \A k \in 1..Len(calls[c].idxs) : calls[c].idxs[k] # r

\* C2: a fit call whose rows all carry action a leaves every sub-model j
\* with discrete_actions[j] # a unchanged.
C2_FitLeavesOtherModels ==
    [][lastOp' = "fit" =>
          \A a \in [1..action_dim -> ActionVals] :
              (\A r \in 1..Len(lastX') : Trailing(lastX'[r], action_dim) = a) =>
                  \A j \in 1..Len(models) :
                      ActionOf(j) # a => models'[j] = models[j]]_vars

\* C3: predict returns exactly 0 at every row whose trailing action_dim
\* columns equal no row of discrete_actions in every component.
C3_PredictZeroForUnrecognized ==
    lastOp = "predict" =>
        \A r \in 1..Len(lastX) :
            Unrecognized(lastX[r]) => predictions[r] = 0

\* C4: predict returns one entry per row of x, in input order; the entry of
\* a row that carries action i is the prediction of sub-model i, and of no
\* other sub-model, on the row's leading columns; predict changes no
\* sub-model and not the action set.
C4_PredictUsesModelOfAction ==
    [][lastOp' = "predict" =>
          /\ models' = models
          /\ discrete_actions' = discrete_actions
          /\ Len(predictions') = Len(lastX')
          /\ \A r \in 1..Len(lastX') :
                \A i \in 1..Len(models) :
                    Trailing(lastX'[r], action_dim) = ActionOf(i) =>
                        /\ sources'[r] = i
                        /\ predictions'[r] =
                              ModelPredict(models[i],
                                           <<Leading(lastX'[r], action_dim)>>)[1]]_vars

\* C5 as stated: __init__ fails, and builds nothing, when discrete_actions
\* has zero rows or is not 2-D; a valid array of k >= 1 rows gives exactly k
\* sub-models.
C5_InitRejectsMalformed ==
    lastOp = "init" =>
        IF Len(initArgs[2].shape) # 2 \/ initArgs[2].shape[1] = 0
        THEN status = "error" /\ models = << >>
        ELSE /\ status = "ok"
             /\ Len(models) = initArgs[2].shape[1]
             /\ \A i \in 1..Len(models) : models[i] = initArgs[1]

\* C5 as amended: __init__ fails, and builds nothing, exactly when
\* discrete_actions has fewer than two dimensions; any other array, one of
\* zero rows or of more than two dimensions included, gives shape[0]
\* sub-models, each a copy of the model, and action_dim = shape[1].
C5_InitChecksNothing ==
    lastOp = "init" =>
        IF Len(initArgs[2].shape) < 2
        THEN status = "error" /\ models = << >> /\ discrete_actions = NoArray
        ELSE /\ status = "ok"
             /\ discrete_actions = initArgs[2]
             /\ action_dim = initArgs[2].shape[2]
             /\ Len(models) = initArgs[2].shape[1]
             /\ \A i \in 1..Len(models) : models[i] = initArgs[1]

\* a 2-D array of zero rows was accepted and gave a regressor of no sub-model
C5_Witness ==
    /\ lastOp = "init"
    /\ Len(initArgs[2].shape) = 2
    /\ initArgs[2].shape[1] = 0
    /\ status = "ok"
    /\ models = << >>

\* ------------------------------------------------------------------
\* Claims about Tiles
\* ------------------------------------------------------------------
Called == lastOp = "call"

Dim(t) == Len(t.range)

\* coordinate d considered by t lies outside [lo, hi): below lo, or at or
\* above hi
Outside(t, x, d) ==
    \/ RLt(Considered(t, x)[d], t.range[d][1])
    \/ RLe(t.range[d][2], Considered(t, x)[d])

AllInside(t, x) == \A d \in 1..Dim(t) : ~Outside(t, x, d)

\* c_d = floor(N_d * (x_d - lo_d) / (hi_d - lo_d)), as a floor of the exact
\* quotient of integers
Component(t, x, d) ==
    LET v == Considered(t, x)[d]
        lo == t.range[d][1]
        hi == t.range[d][2]
        num == t.n_tiles[d] * (v[1] * lo[2] - lo[1] * v[2]) * hi[2] * lo[2]
        den == (hi[1] * lo[2] - lo[1] * hi[2]) * v[2] * lo[2]
    IN  CHOOSE c \in -1..(MaxTiles + 1) : c * den <= num /\ num < (c + 1) * den

Components(t, x) == [d \in 1..Dim(t) |-> Component(t, x, d)]

RECURSIVE Product(_, _)
Product(ns, n) == IF n = 0 THEN 1 ELSE ns[n] * Product(ns, n - 1)

RECURSIVE MixedRadix(_, _, _)
MixedRadix(t, c, d) ==
    IF d = 0 THEN 0
    ELSE c[d] * Product(t.n_tiles, d - 1) + MixedRadix(t, c, d - 1)

Square == <<<<R(0), R(2)>>, <<R(0), R(2)>>>>

\* C6: for a point whose considered coordinates all lie in their ranges, the
\* index returned is the sum over d of c_d * (N_0 * ... * N_(d-1)); with
\* ranges [[0,2],[0,2]] and n_tiles [2,2], the point (1.5, 1.5) gives 3 and
\* the point (0.5, 1.5) gives 2.
C6_MixedRadixIndex ==
    Called =>
        /\ AllInside(tilings[self], point) =>
              result = Some(MixedRadix(tilings[self],
                                       Components(tilings[self], point),
                                       Dim(tilings[self])))
        /\ (/\ tilings[self].range = Square
            /\ tilings[self].n_tiles = <<2, 2>>
            /\ tilings[self].state_components = None) =>
              /\ point = <<<<3, 2>>, <<3, 2>>>> => result = Some(3)
              /\ point = <<<<1, 2>>, <<3, 2>>>> => result = Some(2)

\* the point (0.5, 1.5) of the square tiling was given index 2
C6_Witness ==
    /\ Called
    /\ tilings[self].range = Square
    /\ tilings[self].n_tiles = <<2, 2>>
    /\ tilings[self].state_components = None
    /\ point = <<<<1, 2>>, <<3, 2>>>>
    /\ result = Some(2)

\* the first dimension at which x leaves the range of t (0: none)
FirstOutside(t, x) ==
    IF AllInside(t, x) THEN 0
    ELSE CHOOSE d \in 1..Dim(t) :
            Outside(t, x, d) /\ \A e \in 1..(d - 1) : ~Outside(t, x, e)

\* C7: the result is None exactly when a considered coordinate lies outside
\* its half-open range [lo, hi); None is no index; and the coordinates after
\* the first one outside its range do not influence the result.
C7_NoneIffOutside ==
    Called =>
        /\ (result = None) <=> (\E d \in 1..Dim(tilings[self]) :
                                    Outside(tilings[self], point, d))
        /\ result # None => Len(result) = 1 /\ result[1] \in Int
        /\ ~AllInside(tilings[self], point) =>
              \A q \in Points :
                  (\A d \in 1..FirstOutside(tilings[self], point) :
                        Considered(tilings[self], q)[d]
                            = Considered(tilings[self], point)[d])
                      => TileIndex(tilings[self], q) = result

\* a first coordinate in range and a second one equal to hi: no tile
C7_Witness ==
    /\ Called
    /\ Dim(tilings[self]) = 2
    /\ ~Outside(tilings[self], point, 1)
    /\ Considered(tilings[self], point)[2] = tilings[self].range[2][2]
    /\ result = None

Regular(t) ==
    \A d \in 1..Dim(t) : t.n_tiles[d] >= 1 /\ RLt(t.range[d][1], t.range[d][2])

\* C9: with positive tile counts and lo < hi in every dimension, a result
\* that is not None lies in 0 .. size-1, and two points in range get the
\* same index exactly when their component indices agree in every dimension.
C9_IndexIsBijective ==
    (Called /\ Regular(tilings[self]) /\ result # None) =>
        /\ result[1] \in 0..(tilings[self].size - 1)
        /\ tilings[self].size = Product(tilings[self].n_tiles, Dim(tilings[self]))
        /\ \A q \in Points :
              AllInside(tilings[self], q) =>
                  ((TileIndex(tilings[self], q) = result)
                      <=> (Components(tilings[self], q)
                               = Components(tilings[self], point)))

\* a point of the last tile of a 2-D tiling of more than one tile per
\* dimension: its index is size - 1
C9_Witness ==
    /\ Called
    /\ Regular(tilings[self])
    /\ Dim(tilings[self]) = 2
    /\ tilings[self].n_tiles[1] > 1
    /\ tilings[self].n_tiles[2] > 1
    /\ result = Some(tilings[self].size - 1)

Generated == lastOp \in {"generate", "call"} /\ genArgs # << >> /\ tilings # << >>

ProperBox == \A d \in 1..Len(genArgs.low) : RLt(genArgs.low[d], genArgs.high[d])

\* C8: for high > low in every dimension, the lower bounds of the tilings
\* returned by generate increase strictly with the tiling index, and so do
\* the upper bounds; a single tiling has range [low, high].
C8_OffsetsIncrease ==
    Generated =>
        /\ Len(tilings) = genArgs.n_tilings
        /\ ProperBox =>
              \A i, j \in 1..Len(tilings) :
                  i < j =>
                      \A d \in 1..Len(genArgs.low) :
                          /\ RLt(tilings[i].range[d][1], tilings[j].range[d][1])
                          /\ RLt(tilings[i].range[d][2], tilings[j].range[d][2])
        /\ genArgs.n_tilings = 1 =>
              \A d \in 1..Len(genArgs.low) :
                  tilings[1].range[d] = <<genArgs.low[d], genArgs.high[d]>>

\* generate returned more than one tiling of a 2-D box
C8_Witness ==
    /\ Generated
    /\ ProperBox
    /\ genArgs.n_tilings > 1
    /\ Len(genArgs.low) = 2
    /\ tilings[1].range # tilings[2].range

InBox(x) ==
    \A d \in 1..Len(genArgs.low) :
        RLe(genArgs.low[d], x[d]) /\ RLt(x[d], genArgs.high[d])

\* C10: for high > low in every dimension, every tiling returned by generate
\* has x_min <= low and x_max >= high, so every point of the box
\* [low, high) gets an index from every tiling.
C10_TilingsCoverBox ==
    (Generated /\ ProperBox) =>
        /\ \A i \in 1..Len(tilings) :
              /\ \A d \in 1..Len(genArgs.low) :
                    /\ RLe(tilings[i].range[d][1], genArgs.low[d])
                    /\ RLe(genArgs.high[d], tilings[i].range[d][2])
              /\ \A x \in Points : InBox(x) => TileIndex(tilings[i], x) # None
        /\ (Called /\ InBox(point)) => result # None

\* a point of the box was given an index by a tiling other than the first
C10_Witness ==
    /\ Generated
    /\ ProperBox
    /\ Called
    /\ self > 1
    /\ InBox(point)
    /\ result # None

====
